---- MODULE Spec2Model ----
(***************************************************************************)
(* A model of the l2metrics metric engine: the smoothing kernel and block  *)
(* statistics extractor (l2metrics/_localutil.py), the sample-efficiency   *)
(* module (l2metrics/sample_efficiency.py) and the agent metric modules    *)
(* and report (l2metrics/agent.py).                                        *)
(*                                                                         *)
(* Numbers.  A performance value is an exact fraction [n, d] with d >= 0;  *)
(* d = 0 stands for the IEEE values a float64 division produces: n > 0 is  *)
(* +inf, n < 0 is -inf and n = 0 is NaN.  A series is [num, den]: the      *)
(* numerators over one common denominator.  Rounding of float64 sums is    *)
(* not modelled.                                                           *)
(***************************************************************************)
EXTENDS Integers, Sequences, FiniteSets, TLC

VARIABLES
    pc,                     \* position of the caller: "start", "done", ...
    x,                      \* smooth: the 1-D input series
    window_len,             \* smooth / extractor: <<>> is None, <<k>> is k
    window,                 \* smooth: the window kind
    data,                   \* extractor: the rows <<exp_num, value>> of the frame
    prev_sat_val,           \* extractor: <<>> is None, <<q>> is the fraction q
    do_smoothing,           \* get_terminal_perf: whether the means are smoothed
    term_window_ratio,      \* get_terminal_perf: the fraction [n, d] of the series
    ret,                    \* what the call returned (or raised)
    ste_data,               \* SampleEfficiency.ste_data: task -> STE repetitions
    ste_averaging_method,   \* SampleEfficiency.ste_averaging_method
    block_info,             \* the regime metadata table, one record per regime
    dataframe,              \* the episode log, one record per row
    metrics_df,             \* the running per-regime metrics table
    stdout,                 \* the diagnostics printed or warned so far
    phase_info,             \* AgentMetricsReport.phase_info, one record per block
    self_metrics_dict,      \* AgentMetricsReport._metrics_dict
    syllabus_subtype,       \* AgentMetricsReport.syllabus_subtype
    log_data,               \* AgentMetricsReport._log_data: columns and rows per block
    ste_dict,               \* the default STE data: task -> STE saturation
    self_metrics,           \* AgentMetricsReport._metrics, the ordered module list
    self_results,           \* AgentMetricsReport._results, in insertion order
    kwargs,                 \* the keyword arguments: log_dir, do_plot, perf_measure
    report                  \* compute_scenario_metrics: the objects its report holds

utilVars == <<x, window_len, window, data, prev_sat_val, do_smoothing, term_window_ratio>>
seVars == <<ste_data, ste_averaging_method, block_info, dataframe, metrics_df, stdout>>
pmVars == <<phase_info, self_metrics_dict>>
repVars == <<syllabus_subtype, log_data, ste_dict, self_metrics, self_results>>
evalVars == <<kwargs, report>>
vars == <<pc, x, window_len, window, data, prev_sat_val, do_smoothing, term_window_ratio, ret,
          ste_data, ste_averaging_method, block_info, dataframe, metrics_df, stdout,
          phase_info, self_metrics_dict,
          syllabus_subtype, log_data, ste_dict, self_metrics, self_results,
          kwargs, report>>

----------------------------------------------------------------------------
(* Bounds of the model *)

MaxLen == 4         \* longest enumerated series / frame
MaxVal == 2         \* largest enumerated performance value
MaxStep == 2        \* largest increment of an enumerated increasing series
MaxIncrLen == 6     \* longest enumerated increasing series
MaxRegimes == 2     \* most regimes of an enumerated run
MaxReps == 2        \* most STE repetitions stored for a task
MaxBlocks == 3      \* most blocks of an enumerated phase table
MaxPhase == 2       \* largest enumerated phase_number

----------------------------------------------------------------------------
(* Arithmetic helpers *)

Abs(i) == IF i < 0 THEN -i ELSE i
Min2(a, b) == IF a < b THEN a ELSE b
Max2(a, b) == IF a > b THEN a ELSE b

RECURSIVE Gcd(_, _)
Gcd(a, b) == IF b = 0 THEN a ELSE Gcd(b, a % b)
Lcm(a, b) == (a * b) \div Gcd(a, b)

RECURSIVE SeqSum(_)
SeqSum(s) == IF s = <<>> THEN 0 ELSE s[1] + SeqSum(Tail(s))

\* fractions [n, d], d >= 0
Rat(n, d) == [n |-> n, d |-> d]
Sign(i) == IF i > 0 THEN 1 ELSE IF i < 0 THEN -1 ELSE 0
IsNaN(q) == q.d = 0 /\ q.n = 0
NaN == Rat(0, 0)
\* float64 equality: NaN equals nothing, infinities equal themselves
RatEq(p, q) ==
    /\ ~IsNaN(p) /\ ~IsNaN(q)
    /\ IF p.d = 0 \/ q.d = 0 THEN p.d = 0 /\ q.d = 0 /\ Sign(p.n) = Sign(q.n)
       ELSE p.n * q.d = q.n * p.d
\* the same float64 value (NaN included)
RatSame(p, q) == (IsNaN(p) /\ IsNaN(q)) \/ RatEq(p, q)
RatGe(p, q) ==
    /\ ~IsNaN(p) /\ ~IsNaN(q)
    /\ IF p.d = 0 /\ q.d = 0 THEN Sign(p.n) >= Sign(q.n)
       ELSE IF p.d = 0 THEN p.n > 0
       ELSE IF q.d = 0 THEN q.n < 0
       ELSE p.n * q.d >= q.n * p.d
RatMul(p, q) == Rat(p.n * q.n, p.d * q.d)
RatDiv(p, q) ==
    IF q.n >= 0 THEN Rat(p.n * q.d, p.d * q.n)
    ELSE Rat(-(p.n * q.d), -(p.d * q.n))
RatAdd(p, q) ==
    IF IsNaN(p) \/ IsNaN(q) THEN NaN
    ELSE IF p.d = 0 /\ q.d = 0
         THEN (IF Sign(p.n) = Sign(q.n) THEN Rat(Sign(p.n), 0) ELSE NaN)
    ELSE IF p.d = 0 THEN Rat(Sign(p.n), 0)
    ELSE IF q.d = 0 THEN Rat(Sign(q.n), 0)
    ELSE Rat(p.n * q.d + q.n * p.d, p.d * q.d)
RatSub(p, q) == RatAdd(p, Rat(-q.n, q.d))

----------------------------------------------------------------------------
(* Python sequences: 0-based indexing and slicing *)

At(s, i) == s[i + 1]

\* PySlice_AdjustIndices for one bound of s[start:stop:step]
AdjustIndex(b, n, step) ==
    IF b < 0
    THEN (IF b + n < 0 THEN (IF step < 0 THEN -1 ELSE 0) ELSE b + n)
    ELSE (IF b >= n THEN (IF step < 0 THEN n - 1 ELSE n) ELSE b)

\* s[start:stop:step] for step in {1, -1}
PySlice(s, start, stop, step) ==
    LET n == Len(s)
        a == AdjustIndex(start, n, step)
        b == AdjustIndex(stop, n, step)
    IN  IF step > 0
        THEN [k \in 1..(IF a < b THEN b - a ELSE 0) |-> At(s, a + (k - 1))]
        ELSE [k \in 1..(IF b < a THEN a - b ELSE 0) |-> At(s, a - (k - 1))]

----------------------------------------------------------------------------
(* smooth: _localutil.py lines 25-74 *)

WindowKinds == {"flat", "hanning", "hamming", "bartlett", "blackman"}

\* 10000 * cos(2 pi k / m), rounded, for the window lengths the model reaches
CosTable(m) ==
    CASE m = 1 -> <<10000>>
      [] m = 2 -> <<10000, -10000>>
      [] m = 3 -> <<10000, -5000, -5000>>
      [] m = 4 -> <<10000, 0, -10000, 0>>
      [] m = 5 -> <<10000, 3090, -8090, -8090, 3090>>
      [] m = 6 -> <<10000, 5000, -5000, -10000, -5000, 5000>>
      [] m = 7 -> <<10000, 6235, -2225, -9010, -9010, -2225, 6235>>
      [] m = 8 -> <<10000, 7071, 0, -7071, -10000, -7071, 0, 7071>>
Cos(k, m) == At(CosTable(m), k % m)

\* the window w of lines 64-67, every weight in units of 1/1000000
\* (flat: np.ones, in units of 1)
WindowWeights(kind, M) ==
    [i \in 1..M |->
        LET k == i - 1 IN
        CASE kind = "flat" -> 1
          [] kind = "hanning" -> 500000 - 50 * Cos(k, M - 1)
          [] kind = "hamming" -> 540000 - 46 * Cos(k, M - 1)
          [] kind = "bartlett" -> (1000000 * ((M - 1) - Abs(2 * k - (M - 1)))) \div (M - 1)
          [] kind = "blackman" -> 420000 - 50 * Cos(k, M - 1) + 8 * Cos(2 * k, M - 1)]

\* np.convolve(a, v, mode='valid') for Len(a) <= Len(v)
ConvolveValid(a, v) ==
    LET M == Len(a)
        N == Len(v)
    IN  [k \in 1..(N - M + 1) |->
            SeqSum([j \in 1..M |-> a[j] * v[(k - 1) + M - (j - 1)]])]

\* lines 52-54: int(x.size * 0.2) truncates, and the float64 product of an
\* integer with 0.2 is never below the exact fifth
ResolveWindowLenMutRound(size, wl) ==
    IF wl = <<>> \/ size < wl[1] THEN Min2((size + 2) \div 5, 100) ELSE wl[1]
ResolveWindowLen(size, wl) ==
    IF wl = <<>> \/ size < wl[1] THEN Min2(size \div 5, 100) ELSE wl[1]

\* lines 72-73
StartIndMutCentered(wl) == wl \div 2
StartInd(wl) == (wl \div 2) - 1
EndInd(wl) == -((wl + 1) \div 2)

\* line 62: the series with its reflected copies at both ends
Reflected(num, wl) ==
    PySlice(num, wl - 1, 0, -1) \o num \o PySlice(num, -2, -wl - 1, -1)

\* lines 69-74: the convolution with w / w.sum(), cut back to the input
Convolved(xs, wl, s, w) ==
    [exc |-> "none",
     num |-> PySlice(ConvolveValid(w, s), StartInd(wl), EndInd(wl), 1),
     den |-> xs.den * SeqSum(w)]

\* lines 56-74, for the resolved window length wl
SmoothResolvedMutNoEscape(xs, wl, kind) ==
    IF wl < 2 THEN [exc |-> "none", num |-> xs.num, den |-> xs.den]
    ELSE IF kind \notin WindowKinds THEN [exc |-> "ValueError", num |-> <<>>, den |-> 1]
    ELSE Convolved(xs, wl, Reflected(xs.num, wl), WindowWeights(kind, wl))
SmoothResolved(xs, wl, kind) ==
    IF wl < 3 THEN [exc |-> "none", num |-> xs.num, den |-> xs.den]
    ELSE IF kind \notin WindowKinds THEN [exc |-> "ValueError", num |-> <<>>, den |-> 1]
    ELSE Convolved(xs, wl, Reflected(xs.num, wl), WindowWeights(kind, wl))

\* the smoothed series of xs = [num, den]; exc is the exception raised
Smooth(xs, wl_opt, kind) ==
    SmoothResolved(xs, ResolveWindowLen(Len(xs.num), wl_opt), kind)

----------------------------------------------------------------------------
(* get_block_saturation_perf: _localutil.py lines 77-99 *)

\* the elements of a finite set of integers in increasing order
SortedSeq(S) ==
    [i \in 1..Cardinality(S) |->
        CHOOSE v \in S : Cardinality({u \in S : u < v}) = i - 1]

RECURSIVE LcmAll(_)
\* the least common multiple of a finite set of positive integers
LcmAll(S) ==
    IF S = {} THEN 1
    ELSE LET m == CHOOSE m \in S : TRUE IN Lcm(m, LcmAll(S \ {m}))

\* the sum of the values of the rows with exp_num k
GroupTotal(rows, k) ==
    LET members == SortedSeq({i \in 1..Len(rows) : rows[i][1] = k})
    IN  SeqSum([j \in 1..Len(members) |-> rows[members[j]][2]])

\* the number of rows of each exp_num
GroupCounts(rows, keys) ==
    [g \in 1..Len(keys) |-> Cardinality({i \in 1..Len(rows) : rows[i][1] = keys[g]})]

\* the means over the common denominator den
GroupMeanScaled(rows, keys, counts, den) ==
    [num |-> [g \in 1..Len(keys) |-> GroupTotal(rows, keys[g]) * (den \div counts[g])],
     den |-> den]

GroupMeanCounted(rows, keys, counts) ==
    GroupMeanScaled(rows, keys, counts, LcmAll({counts[g] : g \in 1..Len(keys)}))

\* line 82-83: data.loc[:, ['exp_num', col]].groupby('exp_num').mean(), ravelled:
\* one mean per distinct exp_num, in increasing exp_num order
GroupMean(rows) ==
    LET keys == SortedSeq({rows[i][1] : i \in 1..Len(rows)})
    IN  GroupMeanCounted(rows, keys, GroupCounts(rows, keys))

\* np.nanmax over a non-empty series without NaN
NanMax(s) == CHOOSE v \in {s[i] : i \in 1..Len(s)} : \A i \in 1..Len(s) : v >= s[i]

\* line 90: np.where(smoothed_data == saturation_value)[0], the 0-based
\* indices in increasing order
WhereEqual(s, v) == SortedSeq({i \in 0..(Len(s) - 1) : At(s, i) = v})

\* line 95: np.where(smoothed_data >= prev_sat_val)[0], s holding the
\* numerators over den
WhereReached(s, den, q) == SortedSeq({i \in 0..(Len(s) - 1) : RatGe(Rat(At(s, i), den), q)})

\* line 91: inds[0][0]
FirstIndMutLast(inds) == inds[Len(inds)]
FirstInd(inds) == inds[1]

\* line 94: "if prev_sat_val:" is the truth value of the argument
PrevGivenMutNotNone(prev) == prev # <<>>
PrevGiven(prev) == prev # <<>> /\ ~(prev[1].n = 0 /\ prev[1].d # 0)

\* line 92: the "did not recover" value
NotRecoveredMutLast(rows) == Len(rows) - 1
NotRecoveredMutLen(rows) == Len(rows)
NotRecovered(rows) == Len(rows) + 1

\* line 94-97: the indices where the smoothed series reaches the prior value
ReachedInds(smoothed_data, prev) ==
    IF PrevGiven(prev)
    THEN WhereReached(smoothed_data.num, smoothed_data.den, prev[1])
    ELSE <<>>

\* lines 92-97
RecoveryOf(reached, rows) == IF reached # <<>> THEN reached[1] ELSE NotRecovered(rows)

\* lines 87-99, given the maximum of the smoothed series
SaturationResult(smoothed_data, saturation_value, rows, prev) ==
    [exc |-> "none",
     saturation_value |-> Rat(saturation_value, smoothed_data.den),
     episodes_to_saturation |->
         FirstInd(WhereEqual(smoothed_data.num, saturation_value)),
     episodes_to_recovery |-> RecoveryOf(ReachedInds(smoothed_data, prev), rows)]

\* lines 87-99: np.nanmax of an empty series raises
SaturationOfSmoothed(smoothed_data, rows, prev) ==
    IF Len(smoothed_data.num) = 0
    THEN [exc |-> "ValueError", saturation_value |-> NaN,
          episodes_to_saturation |-> 0, episodes_to_recovery |-> 0]
    ELSE SaturationResult(smoothed_data, NanMax(smoothed_data.num), rows, prev)

get_block_saturation_perf(rows, prev, wl_opt) ==
    SaturationOfSmoothed(Smooth(GroupMean(rows), wl_opt, "flat"), rows, prev)

----------------------------------------------------------------------------
(* Inputs *)

NoRet == [exc |-> "none"]

\* every series of 1..n values
SeriesUpTo(n, vals) == UNION {[1..k -> vals] : k \in 1..n}

\* a longer ramp: 13 episodes, the default window staying below 3, and 15
\* and 20, long enough for the default window to smooth
LongLens == {13, 15, 20}
\* a series long enough for a fifth of its length to exceed 100
CapLen == 505
Ramp(n) == [i \in 1..n |-> (i * i) % (MaxVal + 2)]

\* the rows of a frame with one row per episode (exp_num 0, 1, ...), or with
\* the first two rows logged under the same exp_num
Rows(series, dup) ==
    [i \in 1..Len(series) |->
        <<(IF dup /\ i > 1 THEN i - 2 ELSE i - 1), series[i]>>]

WindowLenArgs == {<<>>} \cup {<<k>> : k \in 0..(MaxLen + 1)}

----------------------------------------------------------------------------
(* The caller of smooth *)

\* the variables a caller does not use
NoTable == [regimes |-> {}, cols |-> <<>>]
SeIdle ==
    /\ ste_data = <<>>
    /\ ste_averaging_method = "metrics"
    /\ block_info = <<>>
    /\ dataframe = <<>>
    /\ metrics_df = NoTable
    /\ stdout = <<>>
TermIdle ==
    /\ do_smoothing = TRUE
    /\ term_window_ratio = Rat(1, 10)
PmIdle ==
    /\ phase_info = <<>>
    /\ self_metrics_dict = <<>>
\* no keyword argument beyond the defaults, no scenario report
NoKwargs == [log_dir |-> <<>>, do_plot |-> FALSE, perf_measure |-> "reward"]
EvalIdle ==
    /\ kwargs = NoKwargs
    /\ report = <<>>
RepIdle ==
    /\ syllabus_subtype = "CL"
    /\ log_data = [columns |-> {}, rows |-> <<>>]
    /\ ste_dict = <<>>
    /\ self_metrics = <<>>
    /\ self_results = <<>>

InitSmooth ==
    /\ pc = "start"
    /\ x \in SeriesUpTo(MaxLen, 0..MaxVal) \cup {Ramp(n) : n \in LongLens \cup {CapLen}}
    /\ window_len \in WindowLenArgs
    /\ window \in WindowKinds \cup {"triangle"}
    \* CosTable stops at 8: the tapered windows are not taken at length 100
    /\ Len(x) = CapLen => window \in {"flat", "triangle"}
    /\ data = <<>>
    /\ prev_sat_val = <<>>
    /\ TermIdle
    /\ EvalIdle
    /\ ret = NoRet
    /\ SeIdle
    /\ PmIdle
    /\ RepIdle

CallSmooth ==
    /\ pc = "start"
    /\ ret' = Smooth([num |-> x, den |-> 1], window_len, window)
    /\ pc' = "done"
    /\ UNCHANGED <<utilVars, evalVars, seVars, pmVars, repVars>>

NextSmooth == CallSmooth

SpecSmooth == InitSmooth /\ [][NextSmooth]_vars

\* C1: for every series of length n >= 3, every window kind and every
\* window_len setting, smooth returns a series of exactly n elements.
C1_SmoothKeepsLength ==
    (pc = "done" /\ Len(x) >= 3 /\ window \in WindowKinds)
        => (ret.exc = "none" /\ Len(ret.num) = Len(x))

\* C1 witness: a window as long as the series has been convolved with it
C1_Witness ==
    /\ pc = "done" /\ Len(x) >= 3 /\ window = "blackman"
    /\ window_len = <<Len(x)>>
    /\ ret.exc = "none" /\ Len(ret.num) = Len(x) /\ ret.den # 1

\* the series handed to smooth, as fractions over 1
InputSeries == [num |-> x, den |-> 1]
\* whether line 52 replaces the window length
DefaultWindow == window_len = <<>> \/ Len(x) < window_len[1]

\* C16: whenever the resolved window length is below 3 (window_len 0, 1 or 2,
\* or the default of a series shorter than 15), smooth returns its input
\* unchanged, element for element.
C16_SmoothIdentityBelowThree ==
    (pc = "done" /\ (IF DefaultWindow THEN Min2(Len(x) \div 5, 100) ELSE window_len[1]) < 3)
        => (ret.exc = "none" /\ ret.num = x /\ ret.den = 1)

\* C16 witness: smooth(x, window_len=2) of four episodes has returned x
C16_Witness ==
    /\ pc = "done" /\ Len(x) = 4 /\ window_len = <<2>> /\ window = "hanning"
    /\ ret.exc = "none" /\ ret.num = x

\* C17 as stated: a window_len that is unset or exceeds the series length is
\* resolved to min(0.2 * len, 100) rounded to the nearest integer; a given
\* window_len within the series length is used as given.
C17_DefaultWindowRounded ==
    pc = "done" =>
        ret = SmoothResolved(InputSeries,
                             IF DefaultWindow THEN Min2((2 * Len(x) + 5) \div 10, 100)
                             ELSE window_len[1],
                             window)

\* C17 amended: a window_len that is unset or exceeds the series length is
\* resolved to min(0.2 * len, 100) truncated to an integer (13 episodes give
\* 2, not 3); a given window_len within the series length is used as given.
C17_DefaultWindowTruncated ==
    pc = "done" =>
        ret = SmoothResolved(InputSeries,
                             IF DefaultWindow THEN Min2((2 * Len(x)) \div 10, 100)
                             ELSE window_len[1],
                             window)

\* C17 witness: 505 episodes with window_len unset were smoothed with a
\* window of 100
C17_Witness ==
    /\ pc = "done" /\ Len(x) = CapLen /\ window_len = <<>> /\ window = "flat"
    /\ ret.exc = "none" /\ Len(ret.num) = CapLen /\ ret.den = 100

\* C18: for every window kind outside the five named ones smooth raises the
\* invalid-window error, for every series and every window_len setting.
C18_InvalidWindowAlwaysRaises ==
    (pc = "done" /\ window \notin {"flat", "hanning", "hamming", "bartlett", "blackman"})
        => ret.exc = "ValueError"

----------------------------------------------------------------------------
(* The caller of get_block_saturation_perf *)

\* the scenario frame: 100 episodes of value 1
ConstantScenario == [i \in 1..100 |-> 1]

PrevArgs == {<<>>} \cup {<<Rat(k, 1)>> : k \in 0..(MaxVal + 1)}

InitSatOf(seriesSet) ==
    /\ pc = "start"
    /\ x = <<>>
    /\ window = "flat"
    /\ \E series \in seriesSet :
       \E dup \in BOOLEAN :
          /\ dup => Len(series) \in 2..MaxLen
          /\ data = Rows(series, dup)
    /\ window_len \in WindowLenArgs \cup {<<10>>}
    /\ prev_sat_val \in PrevArgs
    /\ TermIdle
    /\ EvalIdle
    /\ ret = NoRet
    /\ SeIdle
    /\ PmIdle
    /\ RepIdle

InitSat == InitSatOf(SeriesUpTo(MaxLen, 0..MaxVal))
InitSatScenario == InitSatOf(SeriesUpTo(MaxLen, 0..MaxVal) \cup {ConstantScenario})

CallGetBlockSaturationPerf ==
    /\ pc = "start"
    /\ ret' = get_block_saturation_perf(data, prev_sat_val, window_len)
    /\ pc' = "done"
    /\ UNCHANGED <<utilVars, evalVars, seVars, pmVars, repVars>>

NextSat == CallGetBlockSaturationPerf

SpecSat == InitSat /\ [][NextSat]_vars
SpecSatScenario == InitSatScenario /\ [][NextSat]_vars

\* the smoothed per-episode means of the frame in the state, as fractions
AsFractions(sm) == [i \in 1..Len(sm.num) |-> Rat(sm.num[i], sm.den)]
SmoothedOfData == AsFractions(Smooth(GroupMean(data), window_len, "flat"))

\* strictly increasing series: a start value and positive increments
RECURSIVE Accumulate(_, _)
Accumulate(first, steps) ==
    IF steps = <<>> THEN <<first>>
    ELSE <<first>> \o Accumulate(first + steps[1], Tail(steps))

IncreasingSeries ==
    UNION {{Accumulate(first, steps) : first \in 0..1, steps \in [1..(n - 1) -> 1..MaxStep]}
           : n \in 3..MaxIncrLen}
    \cup {[i \in 1..n |-> i * i] : n \in LongLens}
    \cup {[i \in 1..n |-> 3 * i] : n \in LongLens}

InitIncr ==
    /\ pc = "start"
    /\ x = <<>>
    /\ window = "flat"
    /\ \E series \in IncreasingSeries : data = Rows(series, FALSE)
    /\ window_len \in {<<>>} \cup {<<k>> : k \in 0..(MaxIncrLen + 1)}
    /\ prev_sat_val = <<>>
    /\ TermIdle
    /\ EvalIdle
    /\ ret = NoRet
    /\ SeIdle
    /\ PmIdle
    /\ RepIdle

SpecIncr == InitIncr /\ [][NextSat]_vars

\* C2: saturation_value is the maximum of the flat-smoothed per-episode means
\* and episodes_to_saturation the index of its first occurrence; the constant
\* 100-episode series with window_len = 10 gives (1.0, 0).
C2_SaturationIsFirstMax ==
    (pc = "done" /\ ret.exc = "none") =>
        LET sm == SmoothedOfData
            e == ret.episodes_to_saturation
        IN  /\ e \in 0..(Len(sm) - 1)
            /\ \A i \in 1..Len(sm) : RatGe(ret.saturation_value, sm[i])
            /\ RatEq(sm[e + 1], ret.saturation_value)
            /\ \A j \in 1..e : ~RatEq(sm[j], ret.saturation_value)
            /\ (data = Rows(ConstantScenario, FALSE) /\ window_len = <<10>>)
                   => (RatEq(ret.saturation_value, Rat(1, 1)) /\ e = 0)

\* C2 witness: the scenario has been computed
C2_Witness ==
    /\ pc = "done" /\ data = Rows(ConstantScenario, FALSE) /\ window_len = <<10>>
    /\ RatEq(ret.saturation_value, Rat(1, 1)) /\ ret.episodes_to_saturation = 0

\* the indices at which the smoothed series reaches the prior value
ReachedPrior ==
    LET sm == SmoothedOfData IN
    IF prev_sat_val = <<>> THEN {}
    ELSE {i \in 0..(Len(sm) - 1) : RatGe(At(sm, i), prev_sat_val[1])}

\* C3: episodes_to_recovery is the index of the first smoothed value >= the
\* prior saturation whenever a prior is supplied, whatever its value, and some
\* smoothed value reaches it; it is len(data)+1 exactly when the prior is
\* absent or never reached.
C3_RecoveryForEveryPrior ==
    (pc = "done" /\ ret.exc = "none") =>
        IF ReachedPrior # {}
        THEN /\ ret.episodes_to_recovery \in ReachedPrior
             /\ \A i \in ReachedPrior : ret.episodes_to_recovery <= i
        ELSE ret.episodes_to_recovery = Len(data) + 1

----------------------------------------------------------------------------
(* fill_metrics_df: _localutil.py lines 131-141.  A table is its index      *)
(* (regimes) and its columns, each a function from the index to a cell; a   *)
(* dictionary is a function whose domain is its keys.                       *)

DictSet(d, key, val) ==
    [k \in (DOMAIN d) \cup {key} |-> IF k = key THEN val ELSE d[k]]

ColSet(cols, name, col) ==
    [c \in (DOMAIN cols) \cup {name} |-> IF c = name THEN col ELSE cols[c]]

\* lines 133-135: the column is created full of NaN, then the metric's entries
\* are assigned by index (an index the table lacks would add a row)
FillCellMutZero(metric, r) == IF r \in DOMAIN metric THEN metric[r] ELSE Rat(0, 1)
FillCell(metric, r) == IF r \in DOMAIN metric THEN metric[r] ELSE NaN

fill_metrics_df(metric, metric_string_name, df) ==
    LET index == df.regimes \cup DOMAIN metric
    IN  [regimes |-> index,
         cols |-> ColSet([c \in DOMAIN df.cols |->
                             [r \in index |-> IF r \in df.regimes THEN df.cols[c][r] ELSE NaN]],
                         metric_string_name,
                         [r \in index |-> FillCell(metric, r)])]

----------------------------------------------------------------------------
(* SampleEfficiency: sample_efficiency.py lines 28-139 *)

\* pandas unique(): the task names in order of first appearance
UniqueTasks(bi) ==
    LET firsts == {i \in 1..Len(bi) : \A j \in 1..(i - 1) : bi[j].task_name # bi[i].task_name}
        order == SortedSeq(firsts)
    IN  [k \in 1..Len(order) |-> bi[order[k]].task_name]

\* lines 44-55: the exception raised and the warning issued
validate(bi, ste) ==
    LET unique_tasks == UniqueTasks(bi)
        known == {k \in 1..Len(unique_tasks) : unique_tasks[k] \in DOMAIN ste}
    IN  IF known = {}
        THEN [exc |-> "No STE data available for any task", warned |-> <<>>]
        ELSE IF Cardinality(known) # Len(unique_tasks)
        THEN [exc |-> "none", warned |-> <<<<"warning", "STE data not available for all tasks">>>>]
        ELSE [exc |-> "none", warned |-> <<>>]

\* the <<exp_num, value>> rows of log records
FrameRows(recs) == [i \in 1..Len(recs) |-> <<recs[i].exp_num, recs[i].perf>>]

\* lines 69-73: the wake training rows of the task
TaskData(task, df, bi) ==
    LET task_blocks == {bi[i].regime_num : i \in
                           {i \in 1..Len(bi) : /\ bi[i].task_name = task
                                               /\ bi[i].block_type = "train"
                                               /\ bi[i].block_subtype = "wake"}}
    IN  SelectSeq(df, LAMBDA r : r.regime_num \in task_blocks)

\* lines 91-94: the STE repetitions truncated to the shortest and averaged
TimeAverage(reps) ==
    LET min_ste_exp == CHOOSE m \in {Len(reps[i]) : i \in 1..Len(reps)} :
                           \A i \in 1..Len(reps) : m <= Len(reps[i])
    IN  [num |-> [e \in 1..min_ste_exp |-> SeqSum([i \in 1..Len(reps) |-> reps[i][e][2]])],
         den |-> Len(reps)]

\* line 97: get_block_saturation_perf(x_ste) leaves out the required
\* col_to_use argument, so the call raises before the function body runs
SteSaturationOfAverage(x_ste) ==
    [exc |-> "TypeError", saturation_value |-> NaN,
     episodes_to_saturation |-> 0, episodes_to_recovery |-> 0]

\* lines 105-108 and 125-128
SeSaturation(task_saturation, ste_saturation) == RatDiv(task_saturation, ste_saturation)
SeEpsToSatMutInverse(ste_eps_to_sat, task_eps_to_sat) ==
    RatDiv(Rat(task_eps_to_sat, 1), Rat(ste_eps_to_sat, 1))
SeEpsToSat(ste_eps_to_sat, task_eps_to_sat) ==
    RatDiv(Rat(ste_eps_to_sat, 1), Rat(task_eps_to_sat, 1))

RECURSIVE RatSum(_)
RatSum(qs) == IF qs = <<>> THEN Rat(0, 1) ELSE RatAdd(qs[1], RatSum(Tail(qs)))
\* np.mean of a list of float64: NaN for the empty list
NpMean(qs) == RatDiv(RatSum(qs), Rat(Len(qs), 1))

NotAchieved(task) == <<"Cannot compute for task", task, "Saturation not achieved">>
NoSteData(task) == <<"Cannot compute for task", task, "No STE data available">>

\* lines 113-128: one STE repetition with extractor result s, the task's
\* result being t; "continue" on line 122 goes on with the next repetition
MetricsStep(acc, s, task, t, key) ==
    IF s.exc # "none" THEN [acc EXCEPT !.exc = s.exc]
    ELSE IF s.episodes_to_saturation = 0
    THEN [acc EXCEPT !.out = Append(@, NotAchieved(task))]
    ELSE [acc EXCEPT
            !.se_saturation =
                DictSet(@, key, SeSaturation(t.saturation_value, s.saturation_value)),
            !.se_eps_to_sat =
                DictSet(@, key, SeEpsToSat(s.episodes_to_saturation,
                                           t.episodes_to_saturation)),
            !.vals = Append(@,
                RatMul(SeSaturation(t.saturation_value, s.saturation_value),
                       SeEpsToSat(s.episodes_to_saturation,
                                  t.episodes_to_saturation)))]

RECURSIVE MetricsLoop(_, _, _, _, _)
\* lines 112-128: one pass per STE repetition; an exception ends the loop
MetricsLoop(acc, reps, task, t, key) ==
    IF reps = <<>> \/ acc.exc # "none" THEN acc
    ELSE MetricsLoop(MetricsStep(acc, get_block_saturation_perf(reps[1], <<>>, <<>>),
                                 task, t, key),
                     Tail(reps), task, t, key)

\* lines 97-108: the 'time' branch, s being the saturation of the averaged STE
TimeBranch(acc, s, task, t, key) ==
    IF s.exc # "none" THEN [acc EXCEPT !.exc = s.exc]
    ELSE IF s.episodes_to_saturation = 0
    THEN [acc EXCEPT !.out = Append(@, NotAchieved(task))]
    ELSE [acc EXCEPT
            !.se_saturation =
                DictSet(@, key, SeSaturation(t.saturation_value, s.saturation_value)),
            !.se_eps_to_sat =
                DictSet(@, key, SeEpsToSat(s.episodes_to_saturation,
                                           t.episodes_to_saturation)),
            !.sample_efficiency = DictSet(@, key,
                RatMul(SeSaturation(t.saturation_value, s.saturation_value),
                       SeEpsToSat(s.episodes_to_saturation,
                                  t.episodes_to_saturation)))]

\* line 130: the mean over the repetitions that were not skipped
MetricsBranch(after, key) ==
    IF after.exc # "none" THEN after
    ELSE [after EXCEPT !.sample_efficiency = DictSet(@, key, NpMean(after.vals))]

\* lines 79-130: the comparison with the STE, t being the task's saturation
\* and key the task's last training regime
TaskCompare(acc, task, t, key, ste, method) ==
    IF t.episodes_to_saturation = 0
    THEN [acc EXCEPT !.out = Append(@, NotAchieved(task))]
    ELSE IF method = "time"
    THEN TimeBranch(acc, SteSaturationOfAverage(TimeAverage(ste[task])), task, t, key)
    ELSE MetricsBranch(MetricsLoop([acc EXCEPT !.vals = <<>>], ste[task], task, t, key), key)

\* lines 75-132, task_data being the task's training rows
TaskBodyOf(acc, task, task_data, ste, method) ==
    IF Len(task_data) = 0 THEN acc
    ELSE IF task \notin DOMAIN ste \/ ste[task] = <<>>
    THEN [acc EXCEPT !.out = Append(@, NoSteData(task))]
    ELSE TaskCompare(acc, task, get_block_saturation_perf(FrameRows(task_data), <<>>, <<>>),
                     task_data[Len(task_data)].regime_num, ste, method)

\* lines 68-132: the body of the loop over the tasks, for one task
TaskBody(acc, task, df, bi, ste, method) ==
    TaskBodyOf(acc, task, TaskData(task, df, bi), ste, method)

RECURSIVE TaskLoop(_, _, _, _, _, _)
\* line 67: for task in self.unique_tasks; an exception ends the loop
TaskLoop(acc, tasks, df, bi, ste, method) ==
    IF tasks = <<>> \/ acc.exc # "none" THEN acc
    ELSE TaskLoop(TaskBody(acc, tasks[1], df, bi, ste, method),
                  Tail(tasks), df, bi, ste, method)

\* lines 133-139: the table returned and the diagnostics emitted
SeFinish(acc, mdf) ==
    IF acc.exc # "none"
    THEN [metrics_df |-> mdf, out |-> Append(acc.out, <<"Cannot compute", acc.exc>>)]
    ELSE [metrics_df |->
             fill_metrics_df(acc.sample_efficiency, "sample_efficiency",
                 fill_metrics_df(acc.se_eps_to_sat, "se_eps_to_sat",
                     fill_metrics_df(acc.se_saturation, "se_saturation", mdf))),
          out |-> acc.out]

\* lines 57-139, v being the outcome of validate
SeRun(v, df, bi, mdf, ste, method) ==
    IF v.exc # "none"
    THEN [metrics_df |-> mdf, out |-> <<<<"Cannot compute", v.exc>>>>]
    ELSE SeFinish(TaskLoop([exc |-> "none", out |-> v.warned, vals |-> <<>>,
                            se_saturation |-> <<>>, se_eps_to_sat |-> <<>>,
                            sample_efficiency |-> <<>>],
                           UniqueTasks(bi), df, bi, ste, method),
                  mdf)

\* SampleEfficiency.calculate, lines 57-139
SampleEfficiencyCalculate(df, bi, mdf, ste, method) ==
    SeRun(validate(bi, ste), df, bi, mdf, ste, method)

----------------------------------------------------------------------------
(* The caller of SampleEfficiency.calculate *)

Tasks == {"taskA", "taskB"}

\* the per-episode performance of a regime of the run: saturated at once, or
\* rising to 2 in its second episode
RegimeSeries == {<<1>>, <<0, 2>>}
\* the per-episode performance of a stored STE repetition: saturated at
\* once, or rising to 3 in its third episode
SteSeries == {<<1>>, <<0, 0, 3>>}

RegimeKinds == [task_name : Tasks, block_type : {"train", "test"}, perf : RegimeSeries]

\* the regime metadata of a run of regimes 0, 1, ...
BlockInfoOf(kinds) ==
    [i \in 1..Len(kinds) |->
        [regime_num |-> i - 1, task_name |-> kinds[i].task_name,
         block_type |-> kinds[i].block_type, block_subtype |-> "wake"]]

RECURSIVE LogOf(_, _, _)
\* the log of the run: the episodes of the regimes one after the other,
\* exp_num counting on
LogOf(kinds, regime, first_exp) ==
    IF kinds = <<>> THEN <<>>
    ELSE [e \in 1..Len(kinds[1].perf) |->
             [regime_num |-> regime, exp_num |-> first_exp + e - 1,
              perf |-> kinds[1].perf[e]]]
         \o LogOf(Tail(kinds), regime + 1, first_exp + Len(kinds[1].perf))

SteStores ==
    UNION {[D -> UNION {[1..k -> {Rows(p, FALSE) : p \in SteSeries}] : k \in 1..MaxReps}]
           : D \in SUBSET Tasks}

InitSEWith(methods, stores) ==
    /\ pc = "start"
    /\ x = <<>> /\ window_len = <<>> /\ window = "flat"
    /\ data = <<>> /\ prev_sat_val = <<>>
    /\ TermIdle
    /\ EvalIdle
    /\ ret = NoRet
    /\ \E kinds \in UNION {[1..n -> RegimeKinds] : n \in 1..MaxRegimes} :
          /\ block_info = BlockInfoOf(kinds)
          /\ dataframe = LogOf(kinds, 0, 0)
          /\ metrics_df = [regimes |-> 0..(Len(kinds) - 1), cols |-> <<>>]
    /\ ste_data \in stores
    /\ ste_averaging_method \in methods
    /\ stdout = <<>>
    /\ PmIdle
    /\ RepIdle
InitSEOf(methods) == InitSEWith(methods, SteStores)

\* the caller takes the table returned; the diagnostics went to stdout
SeReturn(r) ==
    /\ metrics_df' = r.metrics_df
    /\ stdout' = stdout \o r.out

CallSampleEfficiencyCalculate ==
    /\ pc = "start"
    /\ SeReturn(SampleEfficiencyCalculate(dataframe, block_info, metrics_df,
                                          ste_data, ste_averaging_method))
    /\ pc' = "done"
    /\ UNCHANGED <<utilVars, evalVars, ret, ste_data, ste_averaging_method, block_info, dataframe,
                   pmVars, repVars>>

NextSE == CallSampleEfficiencyCalculate

InitSE == InitSEOf({"time", "metrics"})
InitSEMetrics == InitSEOf({"metrics"})

SpecSE == InitSE /\ [][NextSE]_vars
SpecSEMetrics == InitSEMetrics /\ [][NextSE]_vars

\* what the claims about SampleEfficiency speak of, from the inputs alone
TrainRegimes(task) ==
    {block_info[i].regime_num : i \in
        {i \in 1..Len(block_info) : /\ block_info[i].task_name = task
                                    /\ block_info[i].block_type = "train"}}
TaskRegimes(task) ==
    {block_info[i].regime_num : i \in
        {i \in 1..Len(block_info) : block_info[i].task_name = task}}
LastTrainRegime(task) ==
    CHOOSE r \in TrainRegimes(task) : \A o \in TrainRegimes(task) : o <= r
TaskPerf(task) ==
    get_block_saturation_perf(
        FrameRows(SelectSeq(dataframe, LAMBDA r : r.regime_num \in TrainRegimes(task))),
        <<>>, <<>>)
StePerf(task, i) == get_block_saturation_perf(ste_data[task][i], <<>>, <<>>)
\* the STE baseline of the 'time' policy: the saturation of the averaged series
SteTimePerf(task) ==
    LET avg == TimeAverage(ste_data[task])
        best == NanMax(avg.num)
    IN  [saturation_value |-> Rat(best, avg.den),
         episodes_to_saturation |->
             CHOOSE e \in 0..(Len(avg.num) - 1) :
                 /\ At(avg.num, e) = best
                 /\ \A j \in 0..(e - 1) : At(avg.num, j) # best]
Cell(col, r) ==
    IF col \in DOMAIN metrics_df.cols /\ r \in DOMAIN metrics_df.cols[col]
    THEN metrics_df.cols[col][r] ELSE NaN
SeCols == {"se_saturation", "se_eps_to_sat", "sample_efficiency"}
SteZero(task) ==
    IF ste_averaging_method = "time"
    THEN SteTimePerf(task).episodes_to_saturation = 0
    ELSE \E i \in 1..Len(ste_data[task]) : StePerf(task, i).episodes_to_saturation = 0
\* the tasks with training data and a stored baseline
Comparable == {t \in Tasks : TrainRegimes(t) # {} /\ t \in DOMAIN ste_data}

\* C5: under 'metrics' with exactly one STE repetition of a task, the
\* sample_efficiency recorded for the task (neither saturation being reached
\* at episode 0) is (task_saturation/ste_saturation)*(ste_eps_to_sat/task_eps_to_sat)
\* of the two direct extractions.
C5_SingleRepetitionIsDirect ==
    (pc = "done" /\ ste_averaging_method = "metrics") =>
        \A t \in Comparable :
            (/\ Len(ste_data[t]) = 1
             /\ TaskPerf(t).episodes_to_saturation # 0
             /\ StePerf(t, 1).episodes_to_saturation # 0)
            => RatSame(Cell("sample_efficiency", LastTrainRegime(t)),
                       RatMul(RatDiv(TaskPerf(t).saturation_value,
                                     StePerf(t, 1).saturation_value),
                              Rat(StePerf(t, 1).episodes_to_saturation,
                                  TaskPerf(t).episodes_to_saturation)))

\* C5 witness: one repetition, saturation 2 after 1 episode against 3 after 2
C5_Witness ==
    /\ pc = "done" /\ ste_averaging_method = "metrics"
    /\ \E t \in Comparable :
          /\ Len(ste_data[t]) = 1
          /\ TaskPerf(t).episodes_to_saturation = 1
          /\ StePerf(t, 1).episodes_to_saturation = 2
          /\ RatEq(Cell("sample_efficiency", LastTrainRegime(t)), Rat(4, 3))

\* C6: under either policy a zero episodes-to-saturation of a task or of its
\* STE baseline leaves the task without any recorded value, with a
\* diagnostic, and every other comparable task still gets its values.
C6_ZeroEpisodesAbortsOnlyThatTask ==
    pc = "done" =>
        \A t \in Comparable :
            IF TaskPerf(t).episodes_to_saturation = 0 \/ SteZero(t)
            THEN /\ \A c \in SeCols : \A r \in TaskRegimes(t) : IsNaN(Cell(c, r))
                 /\ \E k \in 1..Len(stdout) : stdout[k] = NotAchieved(t)
            ELSE \A c \in SeCols : ~IsNaN(Cell(c, LastTrainRegime(t)))

\* C7: with taskA missing from the baseline store and taskB present (and
\* taskB and its baseline saturating after episode 0), a diagnostic is
\* emitted, taskB gets a valid sample_efficiency at its regime row, every
\* cell of taskA's regimes is undefined and the columns span all regimes.
C7_MissingBaselineOfOneTask ==
    (/\ pc = "done"
     /\ DOMAIN ste_data = {"taskB"}
     /\ TrainRegimes("taskA") # {} /\ TrainRegimes("taskB") # {}
     /\ TaskPerf("taskB").episodes_to_saturation # 0
     /\ SteTimePerf("taskB").episodes_to_saturation # 0
     /\ \A i \in 1..Len(ste_data["taskB"]) : StePerf("taskB", i).episodes_to_saturation # 0)
    => /\ \E k \in 1..Len(stdout) : stdout[k] = NoSteData("taskA")
       /\ \E k \in 1..Len(stdout) : stdout[k][1] = "warning"
       /\ \A c \in SeCols :
             /\ c \in DOMAIN metrics_df.cols
             /\ DOMAIN metrics_df.cols[c] = {block_info[i].regime_num : i \in 1..Len(block_info)}
             /\ \A r \in TaskRegimes("taskA") : IsNaN(Cell(c, r))
       /\ LET v == Cell("sample_efficiency", LastTrainRegime("taskB"))
          IN  ~IsNaN(v) /\ v.d # 0

----------------------------------------------------------------------------
(* PerfMaintenanceANT.calculate: agent.py lines 147-193.  phase_info holds  *)
(* one record per block, in index order; block is the index.                *)

\* pandas unique(): the values of a sequence in order of first appearance
UniqueInOrder(seq) ==
    LET firsts == {i \in 1..Len(seq) : \A j \in 1..(i - 1) : seq[j] # seq[i]}
        order == SortedSeq(firsts)
    IN  [k \in 1..Len(order) |-> seq[order[k]]]

\* line 156: phase_info.sort_index().loc[:, 'phase_number'].unique()
PhaseWalkMutReversed(pi) ==
    LET u == UniqueInOrder([i \in 1..Len(pi) |-> pi[i].phase_number])
    IN  [k \in 1..Len(u) |-> u[Len(u) + 1 - k]]
PhaseWalk(pi) == UniqueInOrder([i \in 1..Len(pi) |-> pi[i].phase_number])

\* lines 158-170: the rows of one type of one phase, in table order
PhaseRows(pi, type, phase) ==
    SelectSeq(pi, LAMBDA row : row.phase_type = type /\ row.phase_number = phase)

\* lines 176-180: np.where(previously_trained_tasks == task), then the block
\* id at the first of those positions
ComparisonBlockMutLast(trained, task) ==
    trained[CHOOSE i \in 1..Len(trained) :
                /\ trained[i].task_name = task
                /\ \A j \in (i + 1)..Len(trained) : trained[j].task_name # task].block
ComparisonBlock(trained, task) ==
    trained[CHOOSE i \in 1..Len(trained) :
                /\ trained[i].task_name = task
                /\ \A j \in 1..(i - 1) : trained[j].task_name # task].block

\* line 184
ThisComparisonMutReversed(previously_trained_sat_values, new_sat_value) ==
    RatSub(new_sat_value, previously_trained_sat_values)
ThisComparison(previously_trained_sat_values, new_sat_value) ==
    RatSub(previously_trained_sat_values, new_sat_value)

\* line 185: task + '_phase_' + str(phase) + '_maintenance'
KeyStr(task, phase) == <<task, "_phase_", phase, "_maintenance">>

\* lines 185-187: the difference is stored under its key and appended
RecordComparison(acc, test, b, phase, this_comparison) ==
    [acc EXCEPT
        !.this_metric = DictSet(@, KeyStr(test.task_name, phase), this_comparison),
        !.all_maintenance_vals = Append(@, this_comparison),
        !.compared = Append(@, [test |-> test.block, train |-> b])]

\* lines 180-184: the two saturation values are looked up, b being the
\* training block compared against
Compare(acc, test, b, phase, sat) ==
    IF b \notin DOMAIN sat \/ test.block \notin DOMAIN sat
    THEN [acc EXCEPT !.exc = "KeyError"]
    ELSE RecordComparison(acc, test, b, phase, ThisComparison(sat[b], sat[test.block]))

\* lines 174-187: one test block; line 174 is "if task in previously_trained_tasks"
TestStep(acc, test, trained, phase, sat) ==
    IF \A i \in 1..Len(trained) : trained[i].task_name # test.task_name THEN acc
    ELSE Compare(acc, test, ComparisonBlock(trained, test.task_name), phase, sat)

RECURSIVE TestLoop(_, _, _, _, _)
\* lines 172-187: the test blocks of one phase, in table order
TestLoop(acc, tests, trained, phase, sat) ==
    IF tests = <<>> \/ acc.exc # "none" THEN acc
    ELSE TestLoop(TestStep(acc, tests[1], trained, phase, sat),
                  Tail(tests), trained, phase, sat)

\* lines 158-187: one phase, trained being the blocks trained so far
PhaseStep(acc, phase, trained, pi, sat) ==
    TestLoop([acc EXCEPT !.previously_trained = trained, !.walked = Append(@, phase)],
             PhaseRows(pi, "test", phase), trained, phase, sat)

RECURSIVE PhaseLoop(_, _, _, _)
\* lines 156-187: one pass per phase; the blocks trained in the phase join
\* the previously trained ones before its test blocks are looked at
PhaseLoop(acc, phases, pi, sat) ==
    IF phases = <<>> \/ acc.exc # "none" THEN acc
    ELSE PhaseLoop(PhaseStep(acc, phases[1],
                             acc.previously_trained \o PhaseRows(pi, "train", phases[1]),
                             pi, sat),
                   Tail(phases), pi, sat)

\* line 180 looks 'saturation_value' up at the first comparison only
SaturationValues(metrics_dict) ==
    IF "saturation_value" \in DOMAIN metrics_dict
    THEN metrics_dict["saturation_value"] ELSE <<>>

\* lines 189-193; walked and compared record what the loops did
PerfMaintenanceResult(acc, metrics_dict) ==
    [exc |-> acc.exc,
     metric_to_return |-> [mean_performance_difference |-> NpMean(acc.all_maintenance_vals)],
     metrics_dict |-> DictSet(metrics_dict, "performance_maintenance", acc.this_metric),
     walked |-> acc.walked,
     compared |-> acc.compared]

\* lines 147-193: the exception raised, or the scalar returned and the
\* running metrics
PerfMaintenanceANTCalculate(pi, metrics_dict) ==
    PerfMaintenanceResult(
        PhaseLoop([exc |-> "none", previously_trained |-> <<>>, walked |-> <<>>,
                   this_metric |-> <<>>, all_maintenance_vals |-> <<>>, compared |-> <<>>],
                  PhaseWalk(pi), pi, SaturationValues(metrics_dict)),
        metrics_dict)

----------------------------------------------------------------------------
(* The caller of PerfMaintenanceANT.calculate *)

TaskNames == {"X", "Y"}
\* the saturation values WithinBlockSaturation may have stored for a block
SatChoices == {Rat(3, 1), Rat(5, 1)}

BlockKinds == [phase_number : 1..MaxPhase, phase_type : {"train", "test"}, task_name : TaskNames]

PhaseInfoOf(kinds) ==
    [i \in 1..Len(kinds) |->
        [block |-> i - 1, phase_number |-> kinds[i].phase_number,
         phase_type |-> kinds[i].phase_type, task_name |-> kinds[i].task_name]]

PhaseTables == {PhaseInfoOf(kinds) : kinds \in UNION {[1..n -> BlockKinds] : n \in 1..MaxBlocks}}

InitPM ==
    /\ pc = "start"
    /\ x = <<>> /\ window_len = <<>> /\ window = "flat"
    /\ data = <<>> /\ prev_sat_val = <<>>
    /\ TermIdle
    /\ EvalIdle
    /\ ret = NoRet
    /\ SeIdle
    /\ RepIdle
    /\ phase_info \in PhaseTables
    /\ \E sat \in [0..(Len(phase_info) - 1) -> SatChoices] :
          self_metrics_dict = [k \in {"saturation_value"} |-> sat]

\* the caller keeps what the call returned; the dictionary is updated in
\* place on line 191, after every statement that can raise
PerfMaintenanceReturn(r) ==
    /\ ret' = r
    /\ self_metrics_dict' = IF r.exc = "none" THEN r.metrics_dict ELSE self_metrics_dict

CallPerfMaintenanceANT ==
    /\ pc = "start"
    /\ PerfMaintenanceReturn(PerfMaintenanceANTCalculate(phase_info, self_metrics_dict))
    /\ pc' = "done"
    /\ UNCHANGED <<utilVars, evalVars, seVars, phase_info, repVars>>

NextPM == CallPerfMaintenanceANT

SpecPM == InitPM /\ [][NextPM]_vars

\* the first row of the table that belongs to the phase of row i
FirstRowOfPhase(i) ==
    CHOOSE f \in 1..Len(phase_info) :
        /\ phase_info[f].phase_number = phase_info[i].phase_number
        /\ \A g \in 1..(f - 1) : phase_info[g].phase_number # phase_info[i].phase_number
\* the training rows of the task of test row t in phases walked no later
\* than the phase of t
PriorTrainings(t) ==
    {b \in 1..Len(phase_info) :
        /\ phase_info[b].phase_type = "train"
        /\ phase_info[b].task_name = phase_info[t].task_name
        /\ FirstRowOfPhase(b) <= FirstRowOfPhase(t)}
FirstPriorTraining(t) ==
    CHOOSE b \in PriorTrainings(t) :
        \A o \in PriorTrainings(t) :
            \/ FirstRowOfPhase(b) < FirstRowOfPhase(o)
            \/ (FirstRowOfPhase(b) = FirstRowOfPhase(o) /\ b <= o)
TestedAfterTraining ==
    {t \in 1..Len(phase_info) : phase_info[t].phase_type = "test" /\ PriorTrainings(t) # {}}
SaturationOf(i) == self_metrics_dict["saturation_value"][phase_info[i].block]
ExpectedDifference(t) == RatSub(SaturationOf(FirstPriorTraining(t)), SaturationOf(t))

RECURSIVE SumOfDifferences(_)
SumOfDifferences(S) ==
    IF S = {} THEN Rat(0, 1)
    ELSE LET t == CHOOSE t \in S : TRUE
         IN  RatAdd(ExpectedDifference(t), SumOfDifferences(S \ {t}))

\* the 2-phase scenario: phase 1 trains X, phase 2 tests X
TwoPhaseScenario ==
    /\ phase_info = PhaseInfoOf(<<[phase_number |-> 1, phase_type |-> "train", task_name |-> "X"],
                                  [phase_number |-> 2, phase_type |-> "test", task_name |-> "X"]>>)
    /\ self_metrics_dict["saturation_value"] = [b \in 0..1 |-> IF b = 0 THEN Rat(5, 1) ELSE Rat(3, 1)]

C10_PhasesWalkedInNumberOrder ==
    (pc = "done" /\ ret.exc = "none") =>
        /\ \A i \in 1..Len(ret.walked) : \A j \in (i + 1)..Len(ret.walked) :
              ret.walked[i] < ret.walked[j]
        /\ \A t \in 1..Len(phase_info) :
              (/\ phase_info[t].phase_type = "test"
               /\ \E b \in 1..Len(phase_info) :
                     /\ phase_info[b].phase_type = "train"
                     /\ phase_info[b].task_name = phase_info[t].task_name
                     /\ phase_info[b].phase_number < phase_info[t].phase_number)
              => \E c \in 1..Len(ret.compared) : ret.compared[c].test = phase_info[t].block

----------------------------------------------------------------------------
(* The metric modules run by the report: agent.py lines 45-128.  A module   *)
(* returns [exc, metric_to_return, metrics_dict]; metrics_dict is the       *)
(* dictionary it hands back, exc # "none" means the call raised.           *)

\* the largest block index of the table: phase_info.loc[:, 'block'].max()
MaxBlock(pi) == CHOOSE b \in {pi[i].block : i \in 1..Len(pi)} :
                    \A i \in 1..Len(pi) : b >= pi[i].block

\* the within-block extractor called on line 70, on the rows of one block.
\* _localutil.py does not define a function of this name; it is taken to be
\* the block statistics extractor without a prior value and with the default
\* window
get_block_saturation_performance(block_data) ==
    get_block_saturation_perf(Rows(block_data, FALSE), <<>>, <<>>)

\* line 79: what the module hands back as the running metrics
WithinBlockDict(metrics_dict, saturation_value, eps_to_saturation) ==
    [k \in {"saturation_value", "eps_to_saturation"} |->
        IF k = "saturation_value" THEN saturation_value ELSE eps_to_saturation]

\* lines 66-77: the extractor's result for every block 0..max
BlockPerfsMutFirstBlock(log, pi) ==
    [idx \in 0..MaxBlock(pi) |-> get_block_saturation_performance(log.rows[0])]
BlockPerfs(log, pi) ==
    [idx \in 0..MaxBlock(pi) |->
        get_block_saturation_performance(
            IF idx \in DOMAIN log.rows THEN log.rows[idx] ELSE <<>>)]

\* lines 72-83, perfs being the extractor's results; the first block whose
\* extraction raises ends the call
WithinBlockResult(perfs, metrics_dict) ==
    IF \E idx \in DOMAIN perfs : perfs[idx].exc # "none"
    THEN [exc |-> perfs[CHOOSE idx \in DOMAIN perfs :
                            /\ perfs[idx].exc # "none"
                            /\ \A o \in 0..(idx - 1) : perfs[o].exc = "none"].exc,
          metric_to_return |-> <<>>, metrics_dict |-> metrics_dict]
    ELSE [exc |-> "none",
          metric_to_return |->
              [global_within_block_saturation |->
                   NpMean([k \in 1..Cardinality(DOMAIN perfs) |-> perfs[k - 1].saturation_value]),
               global_num_eps_to_saturation |->
                   NpMean([k \in 1..Cardinality(DOMAIN perfs) |->
                              Rat(perfs[k - 1].episodes_to_saturation, 1)])],
          metrics_dict |->
              WithinBlockDict(metrics_dict,
                              [idx \in DOMAIN perfs |-> perfs[idx].saturation_value],
                              [idx \in DOMAIN perfs |-> perfs[idx].episodes_to_saturation])]

\* WithinBlockSaturation.calculate, lines 58-83
WithinBlockSaturationCalculate(log, pi, metrics_dict) ==
    WithinBlockResult(BlockPerfs(log, pi), metrics_dict)

\* line 102: unique_tasks.any() on an array of task names is the first name
\* that is not the empty string
AnyOf(unique_tasks) ==
    LET truthy == {i \in 1..Len(unique_tasks) : unique_tasks[i] # ""}
    IN  IF truthy = {} THEN unique_tasks[Len(unique_tasks)]
        ELSE unique_tasks[CHOOSE i \in truthy : \A o \in truthy : i <= o]

\* STERelativePerf.validate, lines 96-107: TRUE when it raises
ValidateRaises(pi, ste) ==
    AnyOf(UniqueInOrder([i \in 1..Len(pi) |-> pi[i].task_name])) \notin DOMAIN ste

\* line 114: the block indices the loop visits
SteBlocks(pi) == 0..(MaxBlock(pi) - 1)

\* line 121
SteNormalized(sat, this_ste_comparison) == RatDiv(sat, this_ste_comparison)

\* STERelativePerf.calculate, lines 109-128
STERelativePerfCalculate(pi, metrics_dict, ste) ==
    LET raise(e) == [exc |-> e, metric_to_return |-> <<>>, metrics_dict |-> metrics_dict]
        this_task(idx) == pi[idx + 1].task_name
        missing(idx) ==
            \/ this_task(idx) \notin DOMAIN ste
            \/ "saturation_value" \notin DOMAIN metrics_dict
            \/ idx \notin DOMAIN metrics_dict["saturation_value"]
    IN  IF ValidateRaises(pi, ste) THEN raise("Exception")
        ELSE IF \E idx \in SteBlocks(pi) : missing(idx) THEN raise("KeyError")
        ELSE
        LET STE_normalized_saturation ==
                [idx \in SteBlocks(pi) |->
                    SteNormalized(metrics_dict["saturation_value"][idx], ste[this_task(idx)])]
            all_STE_normalized_saturations ==
                [k \in 1..MaxBlock(pi) |-> STE_normalized_saturation[k - 1]]
        IN  [exc |-> "none",
             metric_to_return |->
                 [global_STE_normalized_saturation |-> NpMean(all_STE_normalized_saturations)],
             metrics_dict |-> DictSet(metrics_dict, "STE_normalized_saturation",
                                      STE_normalized_saturation)]

----------------------------------------------------------------------------
(* AgentMetricsReport: agent.py lines 196-259 *)

MetricModules == {"WithinBlockSaturation", "STERelativePerf", "PerfMaintenanceANT"}
SyllabusSubtypes == {"CL", "ANT_A", "ANT_B", "ANT_C"}

\* _add_default_metrics, lines 222-241, for a recognized subtype
DefaultMetricsMutNoMaintenance(subtype) ==
    IF subtype = "CL" THEN <<"WithinBlockSaturation">>
    ELSE <<"WithinBlockSaturation", "STERelativePerf">>
DefaultMetricsMutReaderFirst(subtype) ==
    IF subtype = "CL" THEN <<"WithinBlockSaturation">>
    ELSE IF subtype = "ANT_A"
    THEN <<"WithinBlockSaturation", "STERelativePerf", "PerfMaintenanceANT">>
    ELSE <<"STERelativePerf", "WithinBlockSaturation">>
DefaultMetrics(subtype) ==
    CASE subtype = "CL" -> <<"WithinBlockSaturation">>
      [] subtype = "ANT_A" -> <<"WithinBlockSaturation", "STERelativePerf", "PerfMaintenanceANT">>
      [] subtype = "ANT_B" -> <<"WithinBlockSaturation", "STERelativePerf">>
      [] subtype = "ANT_C" -> <<"WithinBlockSaturation", "STERelativePerf">>

\* what PerfMaintenanceANT.calculate hands back, or the dictionary as it was
\* when it raised
PerfMaintenanceOutcome(r, metrics_dict) ==
    [exc |-> r.exc, metric_to_return |-> r.metric_to_return,
     metrics_dict |-> IF r.exc = "none" THEN r.metrics_dict ELSE metrics_dict]

\* metric.calculate(self._log_data, self.phase_info, self._metrics_dict), line 245
MetricCalculate(metric, log, pi, metrics_dict, ste) ==
    CASE metric = "WithinBlockSaturation" -> WithinBlockSaturationCalculate(log, pi, metrics_dict)
      [] metric = "STERelativePerf" -> STERelativePerfCalculate(pi, metrics_dict, ste)
      [] metric = "PerfMaintenanceANT" ->
            PerfMaintenanceOutcome(PerfMaintenanceANTCalculate(pi, metrics_dict), metrics_dict)

\* line 246: self._results[metric.name] = this_result
ResultSetMutAppend(results, name, val) == Append(results, <<name, val>>)
ResultSet(results, name, val) ==
    IF \E i \in 1..Len(results) : results[i][1] = name
    THEN [i \in 1..Len(results) |-> IF results[i][1] = name THEN <<name, val>> ELSE results[i]]
    ELSE Append(results, <<name, val>>)

\* lines 245-246: one module, r being what its calculate did.  acc.attempted
\* lists the modules whose calculate was called, acc.failed the modules that
\* raised, acc.before the running metrics as they were before the first
\* failure; no except clause surrounds the call, so the exception leaves the loop.
MetricStep(acc, metric, r) ==
    IF r.exc # "none"
    THEN [acc EXCEPT !.attempted = Append(@, metric),
                     !.exc = r.exc,
                     !.failed = Append(@, metric),
                     !.before = IF acc.failed = <<>> THEN acc.metrics_dict ELSE @]
    ELSE [acc EXCEPT !.attempted = Append(@, metric),
                     !.metrics_dict = r.metrics_dict,
                     !.results = ResultSet(@, metric, r.metric_to_return)]

RECURSIVE MetricLoop(_, _, _, _, _)
\* lines 244-246: the loop over self._metrics
MetricLoop(acc, metrics, log, pi, ste) ==
    IF metrics = <<>> \/ acc.exc # "none" THEN acc
    ELSE MetricLoop(MetricStep(acc, metrics[1],
                               MetricCalculate(metrics[1], log, pi, acc.metrics_dict, ste)),
                    Tail(metrics), log, pi, ste)

\* AgentMetricsReport.calculate, lines 243-246
ReportCalculate(metrics, log, pi, metrics_dict, results, ste) ==
    MetricLoop([exc |-> "none", attempted |-> <<>>, failed |-> <<>>,
                before |-> <<>>,
                metrics_dict |-> metrics_dict, results |-> results],
               metrics, log, pi, ste)

----------------------------------------------------------------------------
(* The caller of the report: construct, add modules, calculate, report *)

MaxReportBlocks == 2
MaxAdded == 1

\* the rewards logged for one block: none, one episode, or two episodes
BlockRewards == {<<>>, <<3>>, <<1, 5>>}
ReportTables ==
    {PhaseInfoOf(kinds) : kinds \in UNION {[1..n -> BlockKinds] : n \in 1..MaxReportBlocks}}
SteDicts == UNION {[S -> {Rat(2, 1)}] : S \in SUBSET TaskNames}

InitReport ==
    /\ pc = "Uninitialized"
    /\ x = <<>> /\ window_len = <<>> /\ window = "flat"
    /\ data = <<>> /\ prev_sat_val = <<>>
    /\ TermIdle
    /\ EvalIdle
    /\ ret = NoRet
    /\ SeIdle
    /\ phase_info \in ReportTables
    /\ self_metrics_dict = <<>>
    /\ syllabus_subtype \in SyllabusSubtypes \cup {"ANT"}
    /\ \E rows \in [0..(Len(phase_info) - 1) -> BlockRewards] :
       \E columns \in {{"block", "reward"}, {"block"}} :
          log_data = [columns |-> columns, rows |-> rows]
    /\ ste_dict \in SteDicts
    /\ self_metrics = <<>>
    /\ self_results = <<>>

\* AgentMetricsReport.__init__, lines 201-220
Construct ==
    /\ pc = "Uninitialized"
    /\ IF syllabus_subtype \notin SyllabusSubtypes
       THEN /\ ret' = [exc |-> "NotImplementedError"]
            /\ pc' = "ConstructRaised"
            /\ UNCHANGED self_metrics
       ELSE /\ self_metrics' = DefaultMetrics(syllabus_subtype)
            /\ IF "reward" \notin log_data.columns
               THEN ret' = [exc |-> "Exception"] /\ pc' = "ConstructRaised"
               ELSE ret' = NoRet /\ pc' = "DataLoaded"
    /\ self_results' = <<>>
    /\ self_metrics_dict' = <<>>
    /\ UNCHANGED <<utilVars, evalVars, seVars, phase_info, syllabus_subtype, log_data, ste_dict>>

\* AgentMetricsReport.add, lines 258-259
Add ==
    /\ pc = "DataLoaded"
    /\ Len(self_metrics) < Len(DefaultMetrics(syllabus_subtype)) + MaxAdded
    /\ \E metric \in MetricModules : self_metrics' = Append(self_metrics, metric)
    /\ UNCHANGED <<pc, ret, utilVars, evalVars, seVars, pmVars,
                   syllabus_subtype, log_data, ste_dict, self_results>>

\* what calculate leaves behind: the dictionary and the results as far as the
\* loop got, and the exception that left the method; called_in is the state
\* of the report when calculate() was called
CalculateReturn(r) ==
    /\ self_metrics_dict' = r.metrics_dict
    /\ self_results' = r.results
    /\ ret' = [exc |-> r.exc, attempted |-> r.attempted,
               failed |-> r.failed, before |-> r.before, called_in |-> pc]
    /\ pc' = IF r.exc = "none" THEN "MetricsComputed" ELSE "CalculateRaised"

\* AgentMetricsReport.calculate, lines 243-246
Calculate ==
    /\ pc \in {"DataLoaded", "MetricsComputed", "CalculateRaised"}
    /\ CalculateReturn(ReportCalculate(self_metrics, log_data, phase_info,
                                       self_metrics_dict, self_results, ste_dict))
    /\ UNCHANGED <<utilVars, evalVars, seVars, phase_info,
                   syllabus_subtype, log_data, ste_dict, self_metrics>>

\* AgentMetricsReport.report, lines 248-252
Report ==
    /\ pc \in {"MetricsComputed", "CalculateRaised"}
    /\ stdout' = stdout \o [i \in 1..Len(self_results) |->
                               <<"Metric", self_results[i][1], "Value", self_results[i][2]>>]
    /\ pc' = "Reported"
    /\ UNCHANGED <<utilVars, evalVars, ret, ste_data, ste_averaging_method, block_info, dataframe,
                   metrics_df, pmVars, repVars>>

NextReport == Construct \/ Add \/ Calculate \/ Report

SpecReport == InitReport /\ [][NextReport]_vars

\* construction alone, from every input of the report
NextConstruct == Construct

SpecConstruct == InitReport /\ [][NextConstruct]_vars

\* C8: when a metric module fails during the report's calculate(), the
\* failure does not abort the report: calculate() completes, every module of
\* the list is still run, and the running metrics are what they were before
\* the failed module ran.
C8_ModuleFailureDoesNotAbort ==
    (pc \in {"MetricsComputed", "CalculateRaised"} /\ ret.failed # <<>>) =>
        /\ pc = "MetricsComputed"
        /\ ret.attempted = self_metrics
        /\ self_metrics_dict = ret.before


\* the tasks that appear in the run, and whether a module's calculate was called
RunTasks == {phase_info[i].task_name : i \in 1..Len(phase_info)}
Attempted(metric) == \E k \in 1..Len(ret.attempted) : ret.attempted[k] = metric
Calculated == pc \in {"MetricsComputed", "CalculateRaised"}

\* C11: whenever STERelativePerf is run on a scenario in which some task,
\* whichever it is and wherever its blocks are, has no STE baseline, the
\* module fails and no STE-normalized value is produced.
C11_MissingBaselineOfAnyTask ==
    (Calculated /\ Attempted("STERelativePerf") /\ ~(RunTasks \subseteq DOMAIN ste_dict)) =>
        /\ pc = "CalculateRaised"
        /\ ret.failed = <<"STERelativePerf">>
        /\ "STE_normalized_saturation" \notin DOMAIN self_metrics_dict

\* C12: after STERelativePerf.calculate succeeds, every test block of the run,
\* the last block included, has an STE_normalized_saturation entry equal to
\* the block's saturation value divided by the STE saturation of its task.
C12_EveryTestBlockNormalized ==
    (/\ pc = "MetricsComputed"
     /\ ret.attempted # <<>>
     /\ ret.attempted[Len(ret.attempted)] = "STERelativePerf") =>
        /\ "STE_normalized_saturation" \in DOMAIN self_metrics_dict
        /\ \A i \in 1..Len(phase_info) :
              phase_info[i].phase_type = "test" =>
                  /\ phase_info[i].block \in DOMAIN self_metrics_dict["STE_normalized_saturation"]
                  /\ RatSame(self_metrics_dict["STE_normalized_saturation"][phase_info[i].block],
                             RatDiv(self_metrics_dict["saturation_value"][phase_info[i].block],
                                    ste_dict[phase_info[i].task_name]))

\* C13: on one report instance calculate() is valid only once: a report that
\* has reached MetricsComputed is not recomputed by another calculate() call.
C13_CalculateOnlyOnce ==
    Calculated => ~(ret.called_in = "MetricsComputed" /\ ret.attempted # <<>>)

\* C14: constructing a report with a subtype outside {CL, ANT_A, ANT_B, ANT_C}
\* raises the unsupported-scenario error to the caller; each recognized
\* subtype yields its own fixed, non-empty ordered module list.
C14_SubtypeSelectsModules ==
    [][pc = "Uninitialized" =>
          IF syllabus_subtype \notin {"CL", "ANT_A", "ANT_B", "ANT_C"}
          THEN /\ pc' = "ConstructRaised"
               /\ ret'.exc = "NotImplementedError"
               /\ self_metrics' = <<>>
          ELSE self_metrics' =
                  CASE syllabus_subtype = "CL" -> <<"WithinBlockSaturation">>
                    [] syllabus_subtype = "ANT_A" ->
                          <<"WithinBlockSaturation", "STERelativePerf", "PerfMaintenanceANT">>
                    [] OTHER -> <<"WithinBlockSaturation", "STERelativePerf">>]_vars

\* C14 witness: the unrecognized subtype 'ANT' has been refused
C14_Witness ==
    /\ pc = "ConstructRaised" /\ syllabus_subtype = "ANT"
    /\ ret.exc = "NotImplementedError" /\ self_metrics = <<>>


----------------------------------------------------------------------------
(* The 'time' policy of SampleEfficiency *)

\* C15: under 'time' with STE data for a task, the STE repetitions are cut to
\* the shortest and averaged point by point, the STE saturation and
\* episodes-to-saturation are taken from the averaged series, and the task's
\* sample_efficiency is (task_saturation/ste_saturation)*(ste_eps_to_sat/task_eps_to_sat).
C15_TimePolicyAveragesSeries ==
    (pc = "done" /\ ste_averaging_method = "time") =>
        \A t \in Comparable :
            (/\ TaskPerf(t).episodes_to_saturation # 0
             /\ SteTimePerf(t).episodes_to_saturation # 0)
            => RatSame(Cell("sample_efficiency", LastTrainRegime(t)),
                       RatMul(RatDiv(TaskPerf(t).saturation_value,
                                     SteTimePerf(t).saturation_value),
                              Rat(SteTimePerf(t).episodes_to_saturation,
                                  TaskPerf(t).episodes_to_saturation)))


----------------------------------------------------------------------------
(* get_terminal_perf: _localutil.py lines 102-128 *)

\* line 115: int((1 - term_window_ratio) * mean_data.size), the ratio being
\* the fraction r = [n, d] with 0 <= r <= 1
TerminalStart(size, r) == ((r.d - r.n) * size) \div r.d

\* line 118: int((1 - (term_window_ratio / 2)) * mean_data.size)
EpisodesToTerminalMutWhole(size, r) == ((r.d - r.n) * size) \div r.d
EpisodesToTerminal(size, r) == ((2 * r.d - r.n) * size) \div (2 * r.d)

\* line 115: np.mean(mean_data[start:]), NaN for an empty slice
TerminalValue(mean_data, start) ==
    Rat(SeqSum([j \in 1..(Len(mean_data.num) - start) |-> mean_data.num[start + j]]),
        mean_data.den * (Len(mean_data.num) - start))

\* lines 123-126: "if prev_val is not None" takes every number as a prior
TerminalReachedInds(mean_data, prev) ==
    IF prev # <<>>
    THEN WhereReached(mean_data.num, mean_data.den, prev[1])
    ELSE <<>>

\* lines 112-113
TerminalSeries(mean_data, do_smooth, wl_opt) ==
    IF do_smooth THEN Smooth(mean_data, wl_opt, "flat")
    ELSE [exc |-> "none", num |-> mean_data.num, den |-> mean_data.den]

\* lines 115-128, mean_data being the series after line 113
TerminalResult(mean_data, rows, prev, r) ==
    [exc |-> "none",
     terminal_value |-> TerminalValue(mean_data, TerminalStart(Len(mean_data.num), r)),
     episodes_to_terminal_perf |-> EpisodesToTerminal(Len(mean_data.num), r),
     episodes_to_recovery |-> RecoveryOf(TerminalReachedInds(mean_data, prev), rows)]

get_terminal_perf(rows, prev_val, do_smooth, wl_opt, r) ==
    TerminalResult(TerminalSeries(GroupMean(rows), do_smooth, wl_opt), rows, prev_val, r)

----------------------------------------------------------------------------
(* The caller of get_terminal_perf *)

\* the terminal window ratios: the default 0.1, a quarter and a half
TermRatios == {Rat(1, 10), Rat(1, 4), Rat(1, 2)}

InitTerm ==
    /\ pc = "start"
    /\ x = <<>>
    /\ window = "flat"
    /\ \E series \in SeriesUpTo(MaxLen, 0..MaxVal) \cup {Ramp(n) : n \in LongLens} :
       \E dup \in BOOLEAN :
          /\ dup => Len(series) \in 2..MaxLen
          /\ data = Rows(series, dup)
    /\ window_len \in WindowLenArgs
    /\ prev_sat_val \in PrevArgs
    /\ do_smoothing \in BOOLEAN
    /\ term_window_ratio \in TermRatios
    /\ EvalIdle
    /\ ret = NoRet
    /\ SeIdle
    /\ PmIdle
    /\ RepIdle

CallGetTerminalPerf ==
    /\ pc = "start"
    /\ ret' = get_terminal_perf(data, prev_sat_val, do_smoothing, window_len,
                                term_window_ratio)
    /\ pc' = "done"
    /\ UNCHANGED <<utilVars, evalVars, seVars, pmVars, repVars>>

NextTerm == CallGetTerminalPerf

SpecTerm == InitTerm /\ [][NextTerm]_vars

\* the per-episode means of the frame, smoothed when smoothing is enabled
TerminalSeriesOfData ==
    IF do_smoothing THEN Smooth(GroupMean(data), window_len, "flat") ELSE GroupMean(data)

C20_RecoveryAgrees ==
    (pc = "done" /\ do_smoothing) =>
        ret.episodes_to_recovery =
            get_block_saturation_perf(data, prev_sat_val, window_len).episodes_to_recovery

----------------------------------------------------------------------------
(* One metric module called on its own, as line 245 calls it: the module    *)
(* receives the running metrics and hands a dictionary back.                *)

\* running metrics a module may receive: none, the per-block values of an
\* earlier WithinBlockSaturation, or those with the entries the two other
\* modules add
ReceivedDicts(pi) ==
    LET blocks == 0..(Len(pi) - 1)
        within == WithinBlockDict(<<>>, [b \in blocks |-> Rat(3, 1)], [b \in blocks |-> 0])
    IN  {<<>>, within,
         DictSet(DictSet(within, "STE_normalized_saturation", [b \in blocks |-> Rat(3, 2)]),
                 "performance_maintenance", <<>>)}

InitModule ==
    /\ pc = "start"
    /\ x = <<>> /\ window_len = <<>> /\ window = "flat"
    /\ data = <<>> /\ prev_sat_val = <<>>
    /\ TermIdle
    /\ EvalIdle
    /\ ret = NoRet
    /\ SeIdle
    /\ phase_info \in ReportTables
    /\ self_metrics_dict \in ReceivedDicts(phase_info)
    /\ syllabus_subtype = "CL"
    /\ \E rows \in [0..(Len(phase_info) - 1) -> BlockRewards] :
          log_data = [columns |-> {"block", "reward"}, rows |-> rows]
    /\ ste_dict \in SteDicts
    /\ self_metrics = <<>>
    /\ self_results = <<>>

\* line 245: this_result, self._metrics_dict = metric.calculate(...); when
\* the call raises nothing is assigned
ModuleReturn(metric, r) ==
    /\ ret' = [exc |-> r.exc, metric |-> metric, metric_to_return |-> r.metric_to_return,
               metrics_dict |-> r.metrics_dict, received |-> self_metrics_dict]
    /\ self_metrics_dict' = IF r.exc = "none" THEN r.metrics_dict ELSE self_metrics_dict

CallMetricCalculate ==
    /\ pc = "start"
    /\ \E metric \in MetricModules :
          ModuleReturn(metric, MetricCalculate(metric, log_data, phase_info,
                                               self_metrics_dict, ste_dict))
    /\ pc' = "done"
    /\ UNCHANGED <<utilVars, evalVars, seVars, phase_info, repVars>>

NextModule == CallMetricCalculate

SpecModule == InitModule /\ [][NextModule]_vars

\* the largest reward of a block and the 0-based episode where it first occurs
BlockBest(rewards) ==
    CHOOSE v \in {rewards[i] : i \in 1..Len(rewards)} : \A i \in 1..Len(rewards) : v >= rewards[i]
BlockBestAt(rewards) ==
    (CHOOSE i \in 1..Len(rewards) :
        /\ rewards[i] = BlockBest(rewards)
        /\ \A j \in 1..(i - 1) : rewards[j] # BlockBest(rewards)) - 1
WithinBlockDone ==
    pc = "done" /\ ret.metric = "WithinBlockSaturation" /\ ret.exc = "none"

\* C21: WithinBlockSaturation.calculate computes the saturation value and the
\* episodes-to-saturation of every block of the run, each from the records of
\* that block alone, stores both under the block's index, and returns the
\* means of the two over all blocks.  (The blocks of the model hold at most
\* two episodes, which smoothing leaves as they are: the saturation value is
\* the block's largest reward, reached at its first occurrence.)
C21_WithinBlockPerBlock ==
    WithinBlockDone =>
        LET blocks == 0..MaxBlock(phase_info)
            n == Cardinality(blocks)
            rows(b) == log_data.rows[b]
        IN  /\ \A b \in blocks : rows(b) # <<>>
            /\ DOMAIN ret.metrics_dict["saturation_value"] = blocks
            /\ DOMAIN ret.metrics_dict["eps_to_saturation"] = blocks
            /\ \A b \in blocks :
                  /\ RatEq(ret.metrics_dict["saturation_value"][b], Rat(BlockBest(rows(b)), 1))
                  /\ ret.metrics_dict["eps_to_saturation"][b] = BlockBestAt(rows(b))
            /\ RatEq(ret.metric_to_return.global_within_block_saturation,
                     Rat(SeqSum([k \in 1..n |-> BlockBest(rows(k - 1))]), n))
            /\ RatEq(ret.metric_to_return.global_num_eps_to_saturation,
                     Rat(SeqSum([k \in 1..n |-> BlockBestAt(rows(k - 1))]), n))

\* C21 witness: two blocks with different rewards, 3 and then 1, 5: the
\* values 3 at episode 0 and 5 at episode 1 are stored, the means are 4 and 1/2
C21_Witness ==
    /\ WithinBlockDone
    /\ Len(phase_info) = 2
    /\ log_data.rows[0] = <<3>> /\ log_data.rows[1] = <<1, 5>>
    /\ RatEq(ret.metrics_dict["saturation_value"][0], Rat(3, 1))
    /\ RatEq(ret.metrics_dict["saturation_value"][1], Rat(5, 1))
    /\ ret.metrics_dict["eps_to_saturation"][1] = 1
    /\ RatEq(ret.metric_to_return.global_within_block_saturation, Rat(4, 1))
    /\ RatEq(ret.metric_to_return.global_num_eps_to_saturation, Rat(1, 2))

\* the keys a module writes itself: lines 79, 126 and 191
OwnKeys(metric) ==
    CASE metric = "WithinBlockSaturation" -> {"saturation_value", "eps_to_saturation"}
      [] metric = "STERelativePerf" -> {"STE_normalized_saturation"}
      [] metric = "PerfMaintenanceANT" -> {"performance_maintenance"}

\* C29: the running-metrics dictionary a metric module's calculate returns
\* still holds every entry the module received, and every entry written by
\* another module is unchanged: no module discards the entries of the
\* modules that ran before it, whatever the order of the modules and however
\* often calculate() is run.
C29_ModulesKeepReceivedEntries ==
    (pc = "done" /\ ret.exc = "none") =>
        \A k \in DOMAIN ret.received :
            /\ k \in DOMAIN ret.metrics_dict
            /\ k \notin OwnKeys(ret.metric) => ret.metrics_dict[k] = ret.received[k]

----------------------------------------------------------------------------
(* The orchestrator run on a valid log: construct, then calculate, and      *)
(* calculate again on the same report.                                      *)

\* the tables of a log written phase after phase, and the STE stores that
\* hold a baseline of task X
RunTables ==
    {pi \in ReportTables :
        \A i \in 1..(Len(pi) - 1) : pi[i].phase_number <= pi[i + 1].phase_number}
RunSteDicts == {ste \in SteDicts : "X" \in DOMAIN ste}

InitRun ==
    /\ pc = "Uninitialized"
    /\ x = <<>> /\ window_len = <<>> /\ window = "flat"
    /\ data = <<>> /\ prev_sat_val = <<>>
    /\ TermIdle
    /\ EvalIdle
    /\ ret = NoRet
    /\ SeIdle
    /\ phase_info \in RunTables
    /\ self_metrics_dict = <<>>
    /\ syllabus_subtype \in SyllabusSubtypes
    /\ \E rows \in [0..(Len(phase_info) - 1) -> BlockRewards] :
          log_data = [columns |-> {"block", "reward"}, rows |-> rows]
    /\ ste_dict \in RunSteDicts
    /\ self_metrics = <<>>
    /\ self_results = <<>>

NextRun == Construct \/ Calculate

SpecRun == InitRun /\ [][NextRun]_vars

\* what a newly constructed report computes from the log, the regime
\* metadata, the STE baselines and the syllabus subtype: lines 218-219 start
\* it with no results and no running metrics
FreshRun ==
    ReportCalculate(DefaultMetrics(syllabus_subtype), log_data, phase_info,
                    <<>>, <<>>, ste_dict)

SaturationReaders == {"STERelativePerf", "PerfMaintenanceANT"}

\* C25: calculate() runs the modules in the order of the list, and in the
\* list of every recognized subtype WithinBlockSaturation comes before every
\* module that reads the saturation values; so in any calculate(), the first
\* or a later one, a module that reads saturation_value is run only after
\* WithinBlockSaturation has written it in that same calculate().
C25_SaturationWrittenBeforeRead ==
    /\ \A subtype \in SyllabusSubtypes :
          LET metrics == DefaultMetrics(subtype) IN
          \A k \in 1..Len(metrics) :
              metrics[k] \in SaturationReaders =>
                  \E j \in 1..(k - 1) : metrics[j] = "WithinBlockSaturation"
    /\ Calculated =>
          /\ ret.attempted = SubSeq(self_metrics, 1, Len(ret.attempted))
          /\ \A k \in 1..Len(ret.attempted) :
                ret.attempted[k] \in SaturationReaders =>
                    /\ \E j \in 1..(k - 1) : ret.attempted[j] = "WithinBlockSaturation"
                    /\ "saturation_value" \in DOMAIN self_metrics_dict

\* C25 witness: the first calculate() of an ANT_A report ran the three
\* modules in the order of the list, and both readers found the values
C25_Witness ==
    /\ pc = "MetricsComputed"
    /\ ret.called_in = "DataLoaded"
    /\ ret.attempted = <<"WithinBlockSaturation", "STERelativePerf", "PerfMaintenanceANT">>
    /\ "STE_normalized_saturation" \in DOMAIN self_metrics_dict
    /\ Len(phase_info) = 2

----------------------------------------------------------------------------
(* compute_scenario_metrics: evaluate.py lines 178-255.  The report class   *)
(* it uses, l2metrics.report.MetricsReport, is not part of the sources: the *)
(* four results are taken to be attributes of the report, as the function   *)
(* reads them, so that the names bound on lines 225-227 and 241 denote the  *)
(* objects the report holds.  A frame or dictionary is a function from      *)
(* column or key to content; a scalar assigned to a column of a frame is    *)
(* the content of every row.                                                *)

\* log_dir.parts: every part is the sequence of its pieces between '_'
SgParts == {<<"m12", "jhu">>, <<"m12", "anl">>, <<"m12">>}
AgentParts == {<<"agent", "0">>, <<"agent", "1">>}
RunParts == {<<"run0">>, <<"run1">>}
LogDirs ==
    {<<>>, <<<<"m12", "jhu">>, <<"run0">>>>}
    \cup {<<sg, <<"eval">>, agent, <<"ll">>, <<"scenario">>, run>> :
             sg \in SgParts, agent \in AgentParts, run \in RunParts}

\* parts[-k], or the IndexError of a path that has fewer than k parts
HasPart(parts, k) == k <= Len(parts)
PartFromEnd(parts, k) == parts[Len(parts) - k + 1]

\* lines 231-233: log_dir.parts[-6].split('_')[1] raises IndexError when the
\* path has fewer than six parts or the part holds no '_'
SgNameRaises(log_dir) ==
    ~HasPart(log_dir, 6) \/ Len(PartFromEnd(log_dir, 6)) < 2
SgName(log_dir) == PartFromEnd(log_dir, 6)[2]
\* lines 236-238: log_dir.parts[-4]
AgentConfig(log_dir) == PartFromEnd(log_dir, 4)
\* line 242: log_dir.name
RunId(log_dir) == PartFromEnd(log_dir, 1)

\* what report.calculate() may leave in the report: the scalar summary, the
\* dictionary mirroring it, the per-regime table and the merged log
ScenarioReports ==
    {[ll_metrics_df |-> [c \in {"perf_recovery"} |-> v],
      ll_metrics_dict |-> [c \in {"perf_recovery"} |-> v],
      regime_metrics_df |-> [c \in {"regime_num", "saturation"} |->
                                IF c = "regime_num" THEN [i \in 1..n |-> i - 1]
                                ELSE [i \in 1..n |-> v]],
      log_data |-> [c \in {"exp_num", "reward"} |->
                       IF c = "exp_num" THEN [i \in 1..e |-> i - 1]
                       ELSE [i \in 1..e |-> v]]] :
        v \in 0..1, n \in 1..MaxRegimes, e \in 1..MaxRegimes}

InitScenario ==
    /\ pc = "start"
    /\ x = <<>> /\ window_len = <<>> /\ window = "flat"
    /\ data = <<>> /\ prev_sat_val = <<>>
    /\ TermIdle
    /\ ret = NoRet
    /\ SeIdle
    /\ PmIdle
    /\ RepIdle
    /\ \E log_dir \in LogDirs : \E do_plot \in BOOLEAN :
          kwargs = [log_dir |-> log_dir, do_plot |-> do_plot, perf_measure |-> "reward"]
    /\ report = <<>>

\* lines 221-224: report = MetricsReport(**kwargs); report.calculate()
MetricsReportCalculate ==
    /\ pc = "start"
    /\ report' \in ScenarioReports
    /\ pc' = "MetricsComputed"
    /\ UNCHANGED <<utilVars, kwargs, ret, seVars, pmVars, repVars>>

\* lines 225-242 on the objects the report holds: the three tags of the
\* summary, of the dictionary and of the regime table, and the run of the log
Tagged(held, log_dir) ==
    [ll_metrics_df |->
         DictSet(DictSet(held.ll_metrics_df, "sg_name", SgName(log_dir)),
                 "agent_config", AgentConfig(log_dir)),
     ll_metrics_dict |->
         DictSet(DictSet(held.ll_metrics_dict, "sg_name", SgName(log_dir)),
                 "agent_config", AgentConfig(log_dir)),
     regime_metrics_df |->
         DictSet(DictSet(held.regime_metrics_df, "sg_name", SgName(log_dir)),
                 "agent_config", AgentConfig(log_dir)),
     log_data |-> DictSet(held.log_data, "run_id", RunId(log_dir))]

\* lines 225-255, the rest of the function after calculate(): the first
\* assignment raises before anything is written, or all are made; plotting
\* writes files only; the four objects returned are the report's own
TagAndReturn ==
    /\ pc = "MetricsComputed"
    /\ IF SgNameRaises(kwargs.log_dir)
       THEN /\ report' = report
            /\ ret' = [exc |-> "IndexError"]
            /\ pc' = "Raised"
       ELSE /\ report' = Tagged(report, kwargs.log_dir)
            /\ ret' = [exc |-> "none", plotted |-> kwargs.do_plot,
                       returned |-> Tagged(report, kwargs.log_dir)]
            /\ pc' = "Returned"
    /\ UNCHANGED <<utilVars, kwargs, seVars, pmVars, repVars>>

NextScenario == MetricsReportCalculate \/ TagAndReturn

SpecScenario == InitScenario /\ [][NextScenario]_vars

\* C23: once the report is in MetricsComputed its results (ll_metrics_df,
\* ll_metrics_dict, regime_metrics_df and the merged log _log_data) are
\* read-only: no later step, the tagging with sg_name, agent_config and
\* run_id by compute_scenario_metrics included, changes the objects the
\* report holds.
C23_ResultsReadOnly ==
    [][(pc \in {"MetricsComputed", "Returned", "Raised"}) => (report' = report)]_vars

----------------------------------------------------------------------------
(* The report constructed with a configured performance measure: the        *)
(* keyword arguments go to core.MetricsReport.__init__ on line 203, and     *)
(* lines 204-220 do not read them.                                          *)

PerfMeasures == {"reward", "score"}

InitConfigured ==
    /\ pc = "Uninitialized"
    /\ x = <<>> /\ window_len = <<>> /\ window = "flat"
    /\ data = <<>> /\ prev_sat_val = <<>>
    /\ TermIdle
    /\ ret = NoRet
    /\ SeIdle
    /\ phase_info \in RunTables
    /\ self_metrics_dict = <<>>
    /\ syllabus_subtype \in SyllabusSubtypes \cup {"ANT"}
    /\ \E rows \in [0..(Len(phase_info) - 1) -> BlockRewards] :
       \E measured \in SUBSET PerfMeasures :
          log_data = [columns |-> {"block"} \cup measured, rows |-> rows]
    /\ ste_dict \in RunSteDicts
    /\ self_metrics = <<>>
    /\ self_results = <<>>
    /\ \E perf_measure \in PerfMeasures :
          kwargs = [NoKwargs EXCEPT !.perf_measure = perf_measure]
    /\ report = <<>>

NextConfigured == Construct \/ Calculate

SpecConfigured == InitConfigured /\ [][NextConfigured]_vars

\* C24: constructing a report on a log that lacks the configured
\* performance-measure column, whichever column perf_measure names, fails
\* with an error that reaches the caller: no report on such a log is ever in
\* DataLoaded, and calculate() never runs on it.
C24_MissingMeasureFailsConstruction ==
    kwargs.perf_measure \notin log_data.columns =>
        /\ pc \in {"Uninitialized", "ConstructRaised"}
        /\ pc = "ConstructRaised" => ret.exc # "none"

----------------------------------------------------------------------------
(* SampleEfficiency.calculate under 'metrics' with STE repetitions that     *)
(* saturate at different values                                             *)

\* a stored repetition may also rise to 2 in its second episode
RepeatedSteSeries == SteSeries \cup {<<0, 2>>}
RepeatedSteStores ==
    UNION {[D -> UNION {[1..k -> {Rows(p, FALSE) : p \in RepeatedSteSeries}] : k \in 1..MaxReps}]
           : D \in SUBSET Tasks}

InitSEReps == InitSEWith({"metrics"}, RepeatedSteStores)

SpecSEReps == InitSEReps /\ [][NextSE]_vars

\* C26: after SampleEfficiency.calculate under 'metrics', at every regime row
\* where sample_efficiency is defined the three columns agree:
\* sample_efficiency = se_saturation * se_eps_to_sat, however many STE
\* repetitions the task has.
C26_ColumnsConsistent ==
    pc = "done" =>
        \A r \in metrics_df.regimes :
            ~IsNaN(Cell("sample_efficiency", r)) =>
                RatEq(Cell("sample_efficiency", r),
                      RatMul(Cell("se_saturation", r), Cell("se_eps_to_sat", r)))

----------------------------------------------------------------------------
(* PerfMaintenanceANT.calculate: which blocks are compared, and what the    *)
(* dictionary keeps of the comparisons                                      *)

\* C27: a test block is only ever compared against a training block that
\* occurred before it in the run, one with a smaller block index: no
\* maintenance difference uses the saturation of a training block that
\* comes after the test block, also when a phase holds both training and
\* test blocks.
C27_ComparedWithEarlierTraining ==
    pc = "done" =>
        \A c \in 1..Len(ret.compared) : ret.compared[c].train < ret.compared[c].test

\* C28: the dictionary stored under performance_maintenance has exactly one
\* entry for each difference that went into mean_performance_difference: no
\* comparison is lost or overwritten, also when the same task is tested in
\* more than one block of a phase.
C28_OneEntryPerComparison ==
    (pc = "done" /\ ret.exc = "none") =>
        LET pm == self_metrics_dict["performance_maintenance"] IN
        /\ Cardinality(DOMAIN pm) = Len(ret.compared)
        /\ \A c \in 1..Len(ret.compared) :
              \E k \in DOMAIN pm :
                  RatEq(pm[k], RatSub(SaturationOf(ret.compared[c].train + 1),
                                      SaturationOf(ret.compared[c].test + 1)))

----------------------------------------------------------------------------
(* Both extractors called on the same frames: the value returned when the   *)
(* prior value is not reached                                               *)

\* the frames, windows and priors of InitTerm with the default ratio
InitExtract ==
    /\ InitTerm
    /\ term_window_ratio = Rat(1, 10)

NextExtract == CallGetBlockSaturationPerf \/ CallGetTerminalPerf

SpecExtract == InitExtract /\ [][NextExtract]_vars

\* the episodes of the frame, and the series whose indices are returned: the
\* smoothed means in get_block_saturation_perf, the means after line 113 in
\* get_terminal_perf
Episodes == {data[i][1] : i \in 1..Len(data)}
SaturationCalled == "saturation_value" \in DOMAIN ret
RecoverySeries ==
    IF SaturationCalled THEN SmoothedOfData ELSE AsFractions(TerminalSeriesOfData)

\* C30: in get_block_saturation_perf and in get_terminal_perf the value
\* len(data)+1 returned when the prior is not reached is strictly greater than
\* every valid index of the smoothed series; episodes_to_recovery is either
\* that value or an index in 0..length-1 at which the series reaches the
\* prior, so the two are never confused, also when several rows share one
\* exp_num.
C30_SentinelAboveEveryIndex ==
    (pc = "done" /\ ret.exc = "none") =>
        LET length == Len(RecoverySeries) IN
        /\ length = Cardinality(Episodes)
        /\ \A i \in 0..(length - 1) : Len(data) + 1 > i
        /\ ret.episodes_to_recovery \in (0..(length - 1)) \cup {Len(data) + 1}
        /\ ret.episodes_to_recovery \in 0..(length - 1) =>
              /\ prev_sat_val # <<>>
              /\ RatGe(At(RecoverySeries, ret.episodes_to_recovery), prev_sat_val[1])

\* C30 witness: get_terminal_perf on four rows of three episodes (two rows
\* share exp_num 0) with a prior that is never reached returns 5
C30_Witness ==
    /\ pc = "done" /\ ret.exc = "none"
    /\ ~SaturationCalled
    /\ Len(data) = 4 /\ Cardinality(Episodes) = 3
    /\ prev_sat_val # <<>>
    /\ \A i \in 0..2 : ~RatGe(At(RecoverySeries, i), prev_sat_val[1])
    /\ ret.episodes_to_recovery = 5

====
